---------------------------- MODULE Spec2Model ----------------------------
(***************************************************************************)
(* Model of the WhatsApp auto-reply agent (src/p.py): the chat scanner,    *)
(* the reader, the responder decision, the dedup ledgers and the           *)
(* monitoring loop.  Text is a sequence of one-character strings, so that  *)
(* strip(), lower(), slicing, startswith() and substring tests are         *)
(* computed as the code computes them.  The clock is read at one-second    *)
(* resolution.                                                             *)
(***************************************************************************)
EXTENDS Integers, Sequences, FiniteSets, TLC

(***************************************************************************)
(* Bounds of the model                                                     *)
(***************************************************************************)
Horizon == 22
MaxHeaderFallbacks == 1
LateWindow == 6
LiveWindow == 63

(***************************************************************************)
(* Program constants                                                       *)
(***************************************************************************)
CHECK_INTERVAL == 3
MESSAGE_COOLDOWN == 15
STABILITY_DELAY == 2
SCAN_COOLDOWN == 5
MaxScannedRows == 20
MinRowHeight == 10
MinNameLen == 2
MaxNameLen == 50
WipeEvery == 10
MaxProcessedMessages == 100
EvictCount == 50
FingerprintPrefixLen == 50
BucketSeconds == 60
ReaderMaxLen == 100
UserMaxLen == 120
MaxErrors == 5
LongBackoff == 30
ShortBackoff == 10
MinSleep == 1
SendPause == 1
PostReplyWait == 2
\* the pauses inside send_message (0.5 + 0.3 + 0.8 + 1 seconds) as whole
\* seconds of the clock
SendTyping == 2
LeavePause == 1
LoadedPause == 3
max_wait_time == 120
check_interval == 5

(***************************************************************************)
(* Text helpers                                                            *)
(***************************************************************************)
UpperLetters == <<"A", "B", "C", "D", "E", "F", "G", "H", "I", "J", "K", "L", "M", "N", "O", "P", "Q", "R", "S", "T", "U", "V", "W", "X", "Y", "Z">>

LowerLetters == <<"a", "b", "c", "d", "e", "f", "g", "h", "i", "j", "k", "l", "m", "n", "o", "p", "q", "r", "s", "t", "u", "v", "w", "x", "y", "z">>

DigitChars == <<"0", "1", "2", "3", "4", "5", "6", "7", "8", "9">>

Whitespace == {" ", "\t", "\n"}

LowerChar(c) ==
    IF \E i \in 1..26 : UpperLetters[i] = c
    THEN LowerLetters[CHOOSE i \in 1..26 : UpperLetters[i] = c]
    ELSE c

\* str.lower()
Lower(s) == [i \in 1..Len(s) |-> LowerChar(s[i])]

\* str.strip()
Strip(s) ==
    LET keep == {i \in 1..Len(s) : s[i] \notin Whitespace}
    IN  IF keep = {} THEN <<>>
        ELSE LET lo == CHOOSE i \in keep : \A j \in keep : i <= j
                 hi == CHOOSE i \in keep : \A j \in keep : j <= i
             IN  SubSeq(s, lo, hi)

\* s[:n]
Take(s, n) == IF Len(s) <= n THEN s ELSE SubSeq(s, 1, n)

\* s.startswith(p)
StartsWith(s, p) == Len(p) <= Len(s) /\ SubSeq(s, 1, Len(p)) = p

\* p in s
Contains(s, p) ==
    \E i \in 1..(Len(s) - Len(p) + 1) : SubSeq(s, i, i + Len(p) - 1) = p

\* str(n) for a natural number
RECURSIVE Digits(_)
Digits(n) ==
    IF n < 10 THEN <<DigitChars[n + 1]>>
    ELSE Digits(n \div 10) \o <<DigitChars[(n % 10) + 1]>>

\* n copies of the character c
Rep(c, n) == [i \in 1..n |-> c]

(***************************************************************************)
(* Literals of the program                                                 *)
(***************************************************************************)
SigHeyBusy == <<"H", "e", "y", "!", " ", "A", "k", "a", "s", "h", " ", "i", "s", " ", "b", "u", "s", "y", " ", "r", "i", "g", "h", "t", " ", "n", "o", "w", ",", " ", "b", "u", "t", " ", "I", "'", "m", " ", "h", "i", "s", " ", "A", "I", " ", "a", "s", "s", "i", "s", "t", "a", "n", "t">>

SigImAkashs == <<"I", "'", "m", " ", "A", "k", "a", "s", "h", "'", "s", " ", "A", "I", " ", "a", "s", "s", "i", "s", "t", "a", "n", "t">>

SigHiBusy == <<"H", "i", "!", " ", "A", "k", "a", "s", "h", " ", "i", "s", " ", "b", "u", "s", "y", " ", "r", "i", "g", "h", "t", " ", "n", "o", "w", " ", "-", " ", "I", "'", "m", " ", "h", "i", "s", " ", "A", "I", " ", "a", "s", "s", "i", "s", "t", "a", "n", "t">>

SigHereToHelp == <<"I", "'", "m", " ", "h", "e", "r", "e", " ", "t", "o", " ", "h", "e", "l", "p", "!", " ", "W", "h", "a", "t", " ", "d", "o", " ", "y", "o", "u", " ", "n", "e", "e", "d", "?">>

\* the robot emoji, one character
SigRobot == <<"robot-emoji">>

SigAIAssistant == <<"A", "I", " ", "a", "s", "s", "i", "s", "t", "a", "n", "t">>

WordAssistant == <<"a", "s", "s", "i", "s", "t", "a", "n", "t">>

BusyNotice == <<"H", "i", ",", " ", "A", "k", "a", "s", "h", " ", "i", "s", " ", "b", "u", "s", "y", ".">>

\* ends with the smiling emoji, one character
GenericFallback == <<"I", "'", "m", " ", "h", "e", "r", "e", " ", "t", "o", " ", "h", "e", "l", "p", "!", " ", "W", "h", "a", "t", " ", "d", "o", " ", "y", "o", "u", " ", "n", "e", "e", "d", "?", " ", "smile-emoji">>

ChatPrefix == <<"C", "h", "a", "t", "_">>

chat_prefix == <<"c", "h", "a", "t", "_">>

unknown_prefix == <<"u", "n", "k", "n", "o", "w", "n", "_">>

\* get_latest_incoming_message: ai_indicators
ai_indicators == {SigHeyBusy, SigImAkashs, SigRobot, SigAIAssistant}

\* is_message_from_user: ai_signatures
ai_signatures == {SigHeyBusy, SigImAkashs, SigHiBusy, SigHereToHelp, SigRobot}

\* get_chat_name_from_element: exclude_words
exclude_words == {<<"o", "n", "l", "i", "n", "e">>, <<"l", "a", "s", "t", " ", "s", "e", "e", "n">>, <<"t", "y", "p", "i", "n", "g">>, <<"u", "n", "r", "e", "a", "d">>, <<"n", "e", "w", " ", "m", "e", "s", "s", "a", "g", "e">>}


(***************************************************************************)
(* The page as the browser session shows it: chat-list rows, the header    *)
(* of the open chat and its incoming messages.                             *)
(***************************************************************************)
Ann == <<"A", "n", "n">>

AnnCaps == <<"A", "N", "N">>

Al == <<"A", "l">>

\* display names of the contacts on the page
Titles == {Ann, AnnCaps, Al}

\* vertical positions of chat-list rows
RowPositions == {0, 72}

\* a chat-list row as Selenium reports it
Rows ==
    [x : {0}, y : RowPositions, displayed : {TRUE}, height : {72},
     unread : {TRUE}, title : Titles]
    \cup
    {[x |-> 0, y |-> 0, displayed |-> TRUE, height |-> 72,
      unread |-> FALSE, title |-> Ann],
     [x |-> 0, y |-> 0, displayed |-> FALSE, height |-> 72,
      unread |-> TRUE, title |-> Ann],
     [x |-> 0, y |-> 0, displayed |-> TRUE, height |-> 0,
      unread |-> TRUE, title |-> Ann]}

\* what find_elements returns for the chat list: rows in document order,
\* top to bottom
RowLists ==
    {all_chats \in UNION {[1..n -> Rows] : n \in 0..Cardinality(RowPositions)} :
        \A i, j \in 1..Len(all_chats) : i < j => all_chats[i].y < all_chats[j].y}

Hi == <<"h", "i">>

\* two 51-character messages with the same first 50 characters
LongA == Rep("x", 50) \o <<"a">>

LongB == Rep("x", 50) \o <<"b">>

\* carries the robot emoji
MsgRobot == <<"o", "k", " ", "robot-emoji">>

\* carries "AI assistant", short
MsgAIAssistant == <<"a", "n", " ">> \o SigAIAssistant

\* carries the generic fallback text
MsgHereToHelp == SigHereToHelp

\* 130 characters, contains "assistant"
MsgLongAssistant == WordAssistant \o Rep("z", 121)

\* 110 characters, contains "assistant"
MsgMidAssistant == WordAssistant \o Rep("z", 101)

\* 121 characters, no "assistant"
MsgLongPlain == Rep("z", 121)

\* the text of the last incoming bubble of the open chat
Messages ==
    {Hi, LongA, LongB, MsgRobot, MsgAIAssistant, MsgHereToHelp,
     MsgLongAssistant, MsgMidAssistant, MsgLongPlain}

\* None
None == <<"None">>

\* replies the language model may produce
ModelReplies == {<<"Y", "e", "p">>}

\* time setup_chrome and the loading of the page take
SetupDelays == {3}

\* the clock when the agent is constructed: half a minute into a minute
StartTime == 100 * BucketSeconds + 30

MaxTime == StartTime + Horizon

\* the clock where a run is picked up in the minute after StartTime's: the
\* successful send that ends there began on the minute boundary
LateStart ==
    (StartTime \div BucketSeconds + 1) * BucketSeconds
        + SendTyping + SendPause + LeavePause + PostReplyWait

LateMax == LateStart + LateWindow

\* the clock where a long-idle run is picked up, ten minutes after StartTime's
\* minute began
LiveStart == (StartTime \div BucketSeconds + 10) * BucketSeconds

LiveMax == LiveStart + LiveWindow

\* what the process finds when it starts: whether the .env file exists,
\* whether the two settings are given, and whether a ChromeDriver executable
\* exists at the configured (or default) path
Envs ==
    [env_file : BOOLEAN, OPENAI_API_KEY : BOOLEAN, CHROME_PROFILE_PATH : BOOLEAN,
     chromedriver : BOOLEAN]

\* everything in place
FullEnv ==
    [env_file |-> TRUE, OPENAI_API_KEY |-> TRUE, CHROME_PROFILE_PATH |-> TRUE,
     chromedriver |-> TRUE]

\* self.driver before the agent exists, before a browser is created, while
\* the browser session is open, after quit(), and after a quit() that raised
NoAgent == "no agent"

NoDriver == "None"

DriverOpen == "open"

DriverQuit == "quit"

DriverQuitFailed == "quit failed"

(***************************************************************************)
(* Pure functions of the program                                           *)
(***************************************************************************)
\* the configuration check that does not look at the API key
setup_config_without_key_check(env) ==
    IF ~env.chromedriver THEN [exit |-> TRUE, profile |-> "none"]
    ELSE [exit |-> FALSE,
          profile |-> IF env.CHROME_PROFILE_PATH THEN "configured" ELSE "default"]

\* setup_config: whether it calls sys.exit(1), and the profile path it
\* settles on
setup_config(env) ==
    IF ~env.OPENAI_API_KEY THEN [exit |-> TRUE, profile |-> "none"]
    ELSE IF ~env.chromedriver THEN [exit |-> TRUE, profile |-> "none"]
    ELSE [exit |-> FALSE,
          profile |-> IF env.CHROME_PROFILE_PATH THEN "configured" ELSE "default"]

\* the cleanup that leaves the browser session alone
cleanup_without_quit(d, quit_ok) == d

\* cleanup: self.driver afterwards; an exception raised by quit() is
\* swallowed
cleanup(d, quit_ok) ==
    IF d = DriverOpen
    THEN IF quit_ok THEN DriverQuit ELSE DriverQuitFailed
    ELSE d

\* f"{x}_{y}"
ChatId(row) == Digits(row.x) \o <<"_">> \o Digits(row.y)

\* the texts the name selectors yield for a row, in order
NameCandidates(row) == <<row.title>>

AcceptableName(name) ==
    /\ Len(name) > 0
    /\ Len(Strip(name)) > MinNameLen
    /\ ~ \E word \in exclude_words : Contains(Lower(name), word)

get_chat_name_from_element(row) ==
    LET cands == NameCandidates(row)
        ok == {i \in 1..Len(cands) : AcceptableName(cands[i])}
    IN  IF ok # {}
        THEN Take(Strip(cands[CHOOSE i \in ok : \A j \in ok : i <= j]), MaxNameLen)
        ELSE ChatPrefix \o Digits(row.x) \o <<"_">> \o Digits(row.y)

\* get_current_chat_name when no header selector yields a name
HeaderFallbackName(t) == ChatPrefix \o Digits(t)

\* the normalisation with the lower-casing left out
CleanNameCaseKept(chat_name) == Strip(chat_name)

\* chat_name.strip().lower()
CleanName(chat_name) == Lower(Strip(chat_name))

IsSynthetic(clean_chat_name) ==
    StartsWith(clean_chat_name, chat_prefix) \/ StartsWith(clean_chat_name, unknown_prefix)

\* the classification with the placeholder-name test left out
is_new_contact_any_name(chat_name, known) ==
    LET clean_chat_name == CleanName(chat_name)
    IN  IF clean_chat_name \in known THEN FALSE ELSE TRUE

is_new_contact(chat_name, known) ==
    LET clean_chat_name == CleanName(chat_name)
    IN  IF clean_chat_name \in known THEN FALSE
        ELSE IF IsSynthetic(clean_chat_name) THEN FALSE
        ELSE TRUE

has_busy_message_been_sent(chat_name, busy) == CleanName(chat_name) \in busy

\* the reader's filter with the indicator loop left out
ReaderRejectsLengthOnly(latest_message) ==
    Len(latest_message) > ReaderMaxLen /\ Contains(Lower(latest_message), WordAssistant)

\* the own-message filter inside get_latest_incoming_message
ReaderRejects(latest_message) ==
    \/ \E indicator \in ai_indicators : Contains(latest_message, indicator)
    \/ Len(latest_message) > ReaderMaxLen /\ Contains(Lower(latest_message), WordAssistant)

\* get_latest_incoming_message, given the last incoming bubble (or None)
get_latest_incoming_message(last) ==
    IF last = None THEN None
    ELSE IF ReaderRejects(last) THEN None
    ELSE last

is_message_from_user(message_text) ==
    IF \E signature \in ai_signatures : Contains(message_text, signature) THEN FALSE
    ELSE IF Len(message_text) > UserMaxLen THEN FALSE
    ELSE TRUE

\* the time group with the division by 60 left out
TimestampGroupSeconds(t) == t

\* int(time.time()) // 60
TimestampGroup(t) == t \div BucketSeconds

\* the fingerprint taken over the whole message
create_message_id_whole_message(message, chat_name, t) ==
    chat_name \o <<":", ":">> \o message \o <<":", ":">> \o Digits(TimestampGroup(t))

\* md5 of f"{chat_name}::{message[:50]}::{timestamp_group}"; the digest is
\* taken to be collision-free, so the formatted text stands for it
create_message_id(message, chat_name, t) ==
    chat_name \o <<":", ":">> \o Take(message, FingerprintPrefixLen)
              \o <<":", ":">> \o Digits(TimestampGroup(t))

\* the model call raised
ModelFails == <<"raise">>

\* the marking that forgets every contact marked before
mark_contact_as_known_only(known, chat_name) == {CleanName(chat_name)}

\* mark_contact_as_known: the known-contacts set afterwards
mark_contact_as_known(known, chat_name) == known \cup {CleanName(chat_name)}

\* mark_busy_message_sent: the busy-notice-sent set afterwards
mark_busy_message_sent(busy, chat_name) == busy \cup {CleanName(chat_name)}

\* the responder with a model call on every message, new contact or not
generate_ai_response_always_model(message, chat_name, known, busy, model) ==
    LET clean == CleanName(chat_name)
    IN  IF model # ModelFails
        THEN [reply |-> Strip(model), known |-> known \cup {clean}, busy |-> busy,
              calls |-> 1, kind |-> "model"]
        ELSE [reply |-> GenericFallback, known |-> known \cup {clean}, busy |-> busy,
              calls |-> 1, kind |-> "fallback"]

\* the responder whose failure handler looks at the busy-notice-sent set
\* alone
generate_ai_response_busy_on_failure(message, chat_name, known, busy, model) ==
    LET is_new == is_new_contact(chat_name, known)
        busy_sent == has_busy_message_been_sent(chat_name, busy)
        known1 == mark_contact_as_known(known, chat_name)
    IN  IF is_new /\ ~busy_sent
        THEN [reply |-> BusyNotice, known |-> mark_contact_as_known(known, chat_name),
              busy |-> mark_busy_message_sent(busy, chat_name),
              calls |-> 0, kind |-> "busy"]
        ELSE IF model # ModelFails
        THEN [reply |-> Strip(model), known |-> known1, busy |-> busy,
              calls |-> 1, kind |-> "model"]
        ELSE IF ~has_busy_message_been_sent(chat_name, busy)
        THEN [reply |-> BusyNotice, known |-> mark_contact_as_known(known1, chat_name),
              busy |-> mark_busy_message_sent(busy, chat_name),
              calls |-> 1, kind |-> "busy"]
        ELSE [reply |-> GenericFallback, known |-> mark_contact_as_known(known1, chat_name),
              busy |-> busy, calls |-> 1, kind |-> "fallback"]

\* generate_ai_response: the reply, the two contact sets afterwards, the
\* number of model calls made and which rule produced the reply
generate_ai_response(message, chat_name, known, busy, model) ==
    LET clean == CleanName(chat_name)
        is_new == is_new_contact(chat_name, known)
        busy_sent == has_busy_message_been_sent(chat_name, busy)
        known1 == mark_contact_as_known(known, chat_name)
    IN  IF is_new /\ ~busy_sent
        THEN [reply |-> BusyNotice, known |-> mark_contact_as_known(known, chat_name),
              busy |-> mark_busy_message_sent(busy, chat_name),
              calls |-> 0, kind |-> "busy"]
        ELSE IF model # ModelFails
        THEN [reply |-> Strip(model), known |-> known1, busy |-> busy,
              calls |-> 1, kind |-> "model"]
        ELSE IF is_new_contact(chat_name, known1)
                /\ ~has_busy_message_been_sent(chat_name, busy)
        THEN [reply |-> BusyNotice, known |-> mark_contact_as_known(known1, chat_name),
              busy |-> mark_busy_message_sent(busy, chat_name),
              calls |-> 1, kind |-> "busy"]
        ELSE [reply |-> GenericFallback, known |-> mark_contact_as_known(known1, chat_name),
              busy |-> busy, calls |-> 1, kind |-> "fallback"]

InCooldown(chat_name, cooldowns, current_time) ==
    /\ chat_name \in DOMAIN cooldowns
    /\ current_time - cooldowns[chat_name] < MESSAGE_COOLDOWN

Min(a, b) == IF a <= b THEN a ELSE b

Max(a, b) == IF a >= b THEN a ELSE b

\* the row loop without the break after the first selected row
RECURSIVE ScanRowsNoBreak(_, _, _, _, _, _)
ScanRowsNoBreak(all_chats, i, unread, processed, cooldowns, current_time) ==
    IF i > Min(Len(all_chats), MaxScannedRows)
    THEN [unread |-> unread, processed |-> processed]
    ELSE LET chat == all_chats[i]
             chat_id == ChatId(chat)
             chat_name == get_chat_name_from_element(chat)
             skip == ScanRowsNoBreak(all_chats, i + 1, unread, processed,
                                     cooldowns, current_time)
         IN  IF ~chat.displayed \/ chat.height <= MinRowHeight THEN skip
             ELSE IF chat_id \in processed THEN skip
             ELSE IF ~chat.unread THEN skip
             ELSE IF InCooldown(chat_name, cooldowns, current_time) THEN skip
             ELSE ScanRowsNoBreak(all_chats, i + 1,
                                  Append(unread, <<chat, chat_name, chat_id>>),
                                  processed \cup {chat_id}, cooldowns, current_time)

\* the row loop of scan_for_unread_chats from row i on: the chats collected
\* and the processed-chats set afterwards
RECURSIVE ScanRows(_, _, _, _, _, _)
ScanRows(all_chats, i, unread, processed, cooldowns, current_time) ==
    IF i > Min(Len(all_chats), MaxScannedRows)
    THEN [unread |-> unread, processed |-> processed]
    ELSE LET chat == all_chats[i]
             chat_id == ChatId(chat)
             chat_name == get_chat_name_from_element(chat)
             skip == ScanRows(all_chats, i + 1, unread, processed, cooldowns, current_time)
         IN  IF ~chat.displayed \/ chat.height <= MinRowHeight THEN skip
             ELSE IF chat_id \in processed THEN skip
             ELSE IF ~chat.unread THEN skip
             ELSE IF InCooldown(chat_name, cooldowns, current_time) THEN skip
             ELSE [unread |-> Append(unread, <<chat, chat_name, chat_id>>),
                   processed |-> processed \cup {chat_id}]

(***************************************************************************)
(* State                                                                   *)
(***************************************************************************)
VARIABLES
    pc,                  \* position of the program
    now,                 \* time.time()
    last_scan_time,      \* self.last_scan_time
    scan_count,          \* self.scan_count
    processed_chats,     \* self.processed_chats
    processed_messages,  \* self.processed_messages
    chat_cooldowns,      \* self.chat_cooldowns
    known_contacts,      \* self.known_contacts
    busy_message_sent,   \* self.busy_message_sent
    error_count,         \* error_count of main_monitoring_loop
    start_time,          \* start_time of the current iteration
    unread_chats,        \* result of the scan of the current iteration
    actual_chat_name,    \* name read from the header of the open chat
    latest_message,      \* result of get_latest_incoming_message
    message_id,          \* fingerprint of the message being handled
    ai_reply,            \* reply text produced by generate_ai_response
    tick,                \* what the current iteration has done so far
    pre,                 \* the ledgers when the current iteration began
    hist,                \* what the run has done so far
    environ,             \* what the process finds when it starts
    driver,              \* self.driver
    cleanups,            \* how many times cleanup has run
    sigint,              \* a keyboard interrupt arrived during the last step:
                         \* raised in the loop body, or swallowed by the bare
                         \* except clauses of leave_current_chat
    wait                 \* wait_for_whatsapp: elapsed_time, the status checks
                         \* made and the kinds of outcome they had

vars == <<pc, now, last_scan_time, scan_count, processed_chats,
          processed_messages, chat_cooldowns, known_contacts,
          busy_message_sent, error_count, start_time, unread_chats,
          actual_chat_name, latest_message, message_id, ai_reply,
          tick, pre, hist, environ, driver, cleanups, sigint, wait>>

process == <<environ, driver, cleanups, wait>>

ledgers == <<processed_messages, chat_cooldowns, known_contacts, busy_message_sent>>

scanner == <<last_scan_time, scan_count, processed_chats>>

locals == <<unread_chats, actual_chat_name, latest_message, message_id, ai_reply>>

EmptyMap == [n \in {} |-> 0]

NewTick ==
    [scanned |-> FALSE, gated |-> FALSE, opened |-> 0, checked |-> 0,
     model_calls |-> 0, generated |-> 0, kind |-> "none", sends |-> 0,
     left |-> 0, outcome |-> "running", evicted |-> 0, found |-> 0,
     unread_rows |-> 0, header_ok |-> TRUE, own |-> FALSE, key |-> None,
     seen |-> FALSE, kept |-> FALSE, slept |-> 0, backoff |-> 0, msg |-> None,
     model_failed |-> FALSE]

Snapshot ==
    [processed_messages |-> processed_messages, chat_cooldowns |-> chat_cooldowns,
     known_contacts |-> known_contacts, busy_message_sent |-> busy_message_sent]

NoHist ==
    [busy_log |-> <<>>, attempts |-> EmptyMap, sent_ok |-> {}, repeats |-> {},
     header_fallbacks |-> 0, last_sent |-> EmptyMap, replied |-> {},
     busy_delivered |-> {}]

\* wait_for_whatsapp is not running
NoWait == [elapsed_time |-> 0, checks |-> 0, seen |-> {}]

\* the process is started: no agent yet
Fresh ==
    /\ pc = "start"
    /\ now = StartTime
    /\ last_scan_time = StartTime
    /\ scan_count = 0
    /\ processed_chats = {}
    /\ processed_messages = {}
    /\ chat_cooldowns = EmptyMap
    /\ known_contacts = {}
    /\ busy_message_sent = {}
    /\ error_count = 0
    /\ start_time = StartTime
    /\ unread_chats = <<>>
    /\ actual_chat_name = None
    /\ latest_message = None
    /\ message_id = None
    /\ ai_reply = None
    /\ tick = NewTick
    /\ pre = [processed_messages |-> {}, chat_cooldowns |-> EmptyMap,
              known_contacts |-> {}, busy_message_sent |-> {}]
    /\ hist = NoHist
    /\ driver = NoAgent
    /\ cleanups = 0
    /\ sigint = FALSE
    /\ wait = NoWait

Init == Fresh /\ environ = FullEnv

(***************************************************************************)
(* Helpers of the actions                                                  *)
(***************************************************************************)
\* how far the clock is followed: a run from StartTime until MaxTime, a run
\* picked up at LateStart until LateMax
Deadline ==
    IF now >= LiveStart THEN LiveMax
    ELSE IF now >= LateStart THEN LateMax ELSE MaxTime

Put(m, k, v) == [x \in DOMAIN m \cup {k} |-> IF x = k THEN v ELSE m[x]]

Count(m, k) == IF k \in DOMAIN m THEN m[k] ELSE 0

\* time leave_current_chat takes: the pause after the method that worked
LeaveTimes == {LeavePause}

ResetLocals ==
    /\ unread_chats' = <<>>
    /\ actual_chat_name' = None
    /\ latest_message' = None
    /\ message_id' = None
    /\ ai_reply' = None

\* `continue`, or the end of the loop body: back to the top of the loop
NextIteration(t) ==
    /\ pc' = "scan"
    /\ tick' = t
    /\ ResetLocals

\* the contact whose row was selected by the scan of this iteration
SelectedRow == unread_chats[1][1]

\* the pair a fingerprint stands for: chat name, first 50 characters of the
\* message, and the minute in which it was read
PairKey(message, chat_name, t) ==
    <<chat_name, Take(message, FingerprintPrefixLen), t \div BucketSeconds>>

\* the record of a reply that was sent: the chat that was opened, the name
\* read from its header, the message answered and the minute in which its
\* fingerprint was computed
Replied(title, chat_name, message, t) ==
    [chat |-> title, name |-> chat_name, message |-> message,
     bucket |-> t \div BucketSeconds]

\* the durable identity of a contact: its name trimmed and lower-cased
ContactKey(chat_name) == Lower(Strip(chat_name))

\* the rows of the page that are shown and carry an unread indicator
UnreadRows(all_chats) ==
    {i \in 1..Len(all_chats) :
        /\ all_chats[i].displayed
        /\ all_chats[i].height > MinRowHeight
        /\ all_chats[i].unread}

\* the messages the own-message filter is meant to stop: one that carries
\* a signature of the agent, or is longer than 120 characters and contains
\* "assistant"
OwnMessage(last) ==
    /\ last # None
    /\ \/ \E sig \in ai_indicators \cup ai_signatures : Contains(last, sig)
       \/ Len(last) > UserMaxLen /\ Contains(Lower(last), WordAssistant)

(***************************************************************************)
(* Actions                                                                 *)
(***************************************************************************)
\* the positions inside the loop body
LoopPcs == {"scan", "click", "read", "dedup", "generate", "send", "housekeeping", "sleep"}

\* main up to the construction of the agent: the .env check, setup_config
\* and the test call to the API.  Any failure ends the process.
Construct ==
    /\ pc = "start"
    /\ \E api_ok \in BOOLEAN :
          IF environ.env_file /\ ~setup_config(environ).exit /\ api_ok
          THEN /\ pc' = "main"
               /\ driver' = NoDriver
          ELSE /\ pc' = "exit"
               /\ UNCHANGED driver
    /\ sigint' = FALSE
    /\ UNCHANGED <<now, scanner, ledgers, error_count, start_time, locals, tick,
                   pre, hist, environ, cleanups, wait>>

\* main: setup_chrome returns True, and wait_for_whatsapp loads the page
\* and starts its status checks
OpenWhatsApp ==
    /\ pc = "main"
    /\ \E d \in SetupDelays :
          /\ now + d <= MaxTime
          /\ now' = now + d
    /\ pc' = "wait"
    /\ driver' = DriverOpen
    /\ wait' = NoWait
    /\ sigint' = FALSE
    /\ UNCHANGED <<scanner, ledgers, error_count, start_time, locals, tick, pre,
                   hist, environ, cleanups>>

\* what a status check can find when the chat list is not visible: the QR
\* code, a page that is still loading (or nothing at all), or an exception
CheckOutcomes == {"qr", "loading", "error"}

\* the status check that does not count the time spent showing the QR code
StatusCheckQrNotCounted ==
    /\ pc = "wait"
    /\ wait.elapsed_time < max_wait_time
    /\ \E outcome \in CheckOutcomes :
          LET w == [elapsed_time |-> IF outcome = "qr" THEN wait.elapsed_time
                                     ELSE wait.elapsed_time + check_interval,
                    checks |-> wait.checks + 1,
                    seen |-> wait.seen \cup {outcome}]
          IN  /\ wait' = w
              /\ IF w.elapsed_time < max_wait_time
                 THEN /\ pc' = "wait"
                      /\ UNCHANGED tick
                 ELSE /\ pc' = "cleanup"
                      /\ tick' = [tick EXCEPT !.outcome = "setup_failed"]
    /\ now' = now + check_interval
    /\ sigint' = FALSE
    /\ UNCHANGED <<scanner, ledgers, error_count, start_time, locals, pre, hist,
                   environ, driver, cleanups>>

\* wait_for_whatsapp: one pass of the while loop that does not find the chat
\* list.  Each of the three ways through it sleeps check_interval and adds
\* it to elapsed_time; when the loop condition then fails the function
\* returns False and main returns through its finally clause.
StatusCheck ==
    /\ pc = "wait"
    /\ wait.elapsed_time < max_wait_time
    /\ \E outcome \in CheckOutcomes :
          LET w == [elapsed_time |-> wait.elapsed_time + check_interval,
                    checks |-> wait.checks + 1,
                    seen |-> wait.seen \cup {outcome}]
          IN  /\ wait' = w
              /\ IF w.elapsed_time < max_wait_time
                 THEN /\ pc' = "wait"
                      /\ UNCHANGED tick
                 ELSE /\ pc' = "cleanup"
                      /\ tick' = [tick EXCEPT !.outcome = "setup_failed"]
    /\ now' = now + check_interval
    /\ sigint' = FALSE
    /\ UNCHANGED <<scanner, ledgers, error_count, start_time, locals, pre, hist,
                   environ, driver, cleanups>>

\* wait_for_whatsapp: the pass of the while loop that finds the chat list;
\* it returns True and main enters main_monitoring_loop
EnterLoop ==
    /\ pc = "wait"
    /\ wait.elapsed_time < max_wait_time
    /\ now + LoadedPause <= MaxTime
    /\ now' = now + LoadedPause
    /\ pc' = "scan"
    /\ error_count' = 0
    /\ wait' = NoWait
    /\ sigint' = FALSE
    /\ UNCHANGED <<scanner, ledgers, start_time, locals, tick, pre, hist,
                   environ, driver, cleanups>>

\* main: setup_chrome returns False (before or after the browser was
\* created), or loading the page raises in wait_for_whatsapp.  The clock is
\* not read again on this route.
SetupFails ==
    /\ pc = "main"
    /\ \E stage \in {"chrome", "script", "whatsapp"} :
          /\ driver' = IF stage = "chrome" THEN NoDriver ELSE DriverOpen
          /\ tick' = [tick EXCEPT !.outcome = "setup_failed"]
    /\ pc' = "cleanup"
    /\ sigint' = FALSE
    /\ UNCHANGED <<now, scanner, ledgers, error_count, start_time, locals,
                   pre, hist, environ, cleanups, wait>>

\* the scan that never clears the processed-chats set
ScanPageNeverWipes(pages) ==
    /\ pc = "scan"
    /\ start_time' = now
    /\ pre' = Snapshot
    /\ IF now - last_scan_time < SCAN_COOLDOWN
       THEN /\ unread_chats' = <<>>
            /\ tick' = [NewTick EXCEPT !.gated = TRUE]
            /\ UNCHANGED scanner
       ELSE \E all_chats \in pages :
              LET r == ScanRows(all_chats, 1, <<>>, processed_chats,
                                chat_cooldowns, now)
              IN  /\ last_scan_time' = now
                  /\ scan_count' = scan_count + 1
                  /\ tick' = [NewTick EXCEPT !.scanned = TRUE,
                                 !.unread_rows = Cardinality(UnreadRows(all_chats))]
                  /\ IF all_chats = <<>>
                     THEN /\ unread_chats' = <<>>
                          /\ UNCHANGED processed_chats
                     ELSE /\ unread_chats' = r.unread
                          /\ processed_chats' =
                                r.processed
    /\ pc' = IF unread_chats' # <<>> THEN "click" ELSE "housekeeping"
    /\ sigint' = FALSE
    /\ UNCHANGED <<now, ledgers, error_count, actual_chat_name,
                   latest_message, message_id, ai_reply, hist, process>>

\* top of the loop body and scan_for_unread_chats, with the page showing one
\* of the given chat lists
ScanPage(pages) ==
    /\ pc = "scan"
    /\ start_time' = now
    /\ pre' = Snapshot
    /\ IF now - last_scan_time < SCAN_COOLDOWN
       THEN /\ unread_chats' = <<>>
            /\ tick' = [NewTick EXCEPT !.gated = TRUE]
            /\ UNCHANGED scanner
       ELSE \E all_chats \in pages :
              LET r == ScanRows(all_chats, 1, <<>>, processed_chats,
                                chat_cooldowns, now)
              IN  /\ last_scan_time' = now
                  /\ scan_count' = scan_count + 1
                  /\ tick' = [NewTick EXCEPT !.scanned = TRUE,
                                 !.unread_rows = Cardinality(UnreadRows(all_chats))]
                  /\ IF all_chats = <<>>
                     THEN /\ unread_chats' = <<>>
                          /\ UNCHANGED processed_chats
                     ELSE /\ unread_chats' = r.unread
                          /\ processed_chats' =
                                IF (scan_count + 1) % WipeEvery = 0
                                THEN {} ELSE r.processed
    /\ pc' = IF unread_chats' # <<>> THEN "click" ELSE "housekeeping"
    /\ sigint' = FALSE
    /\ UNCHANGED <<now, ledgers, error_count, actual_chat_name,
                   latest_message, message_id, ai_reply, hist, process>>

\* top of the loop body and scan_for_unread_chats
Scan == ScanPage(RowLists)

\* click_chat_element and the wait for the chat to load
Click ==
    /\ pc = "click"
    /\ \E clicked \in BOOLEAN :
          IF clicked
          THEN /\ now + 2 * STABILITY_DELAY <= Deadline
               /\ now' = now + 2 * STABILITY_DELAY
               /\ pc' = "read"
               /\ tick' = [tick EXCEPT !.opened = @ + 1]
               /\ UNCHANGED locals
          ELSE /\ NextIteration([tick EXCEPT !.outcome = "click_failed"])
               /\ UNCHANGED now
    /\ sigint' = FALSE
    /\ UNCHANGED <<scanner, ledgers, error_count, start_time, pre, hist, process>>

\* get_current_chat_name, get_latest_incoming_message and the checks on
\* the message
Read ==
    /\ pc = "read"
    /\ \E header_ok \in BOOLEAN, last \in Messages \cup {None}, dl \in LeaveTimes :
          LET name == IF header_ok THEN Strip(SelectedRow.title)
                      ELSE HeaderFallbackName(now)
              msg == get_latest_incoming_message(last)
              seen == last # None /\ Len(Strip(last)) > 0
          IN  /\ ~header_ok => hist.header_fallbacks < MaxHeaderFallbacks
              /\ hist' = IF header_ok THEN hist
                         ELSE [hist EXCEPT !.header_fallbacks = @ + 1]
              /\ IF msg # None /\ Len(Strip(msg)) > 0
                 THEN IF ~is_message_from_user(msg)
                      THEN /\ now + dl <= Deadline
                           /\ now' = now + dl
                           /\ sigint' \in BOOLEAN
                           /\ NextIteration([tick EXCEPT !.left = @ + 1,
                                                         !.own = OwnMessage(last),
                                                         !.seen = seen,
                                                         !.outcome = "own_message"])
                      ELSE /\ pc' = "dedup"
                           /\ actual_chat_name' = name
                           /\ latest_message' = msg
                           /\ tick' = [tick EXCEPT !.header_ok = header_ok,
                                                   !.own = OwnMessage(last),
                                                   !.seen = seen]
                           /\ sigint' = FALSE
                           /\ UNCHANGED <<now, unread_chats, message_id, ai_reply>>
                 ELSE /\ now + dl <= Deadline
                      /\ now' = now + dl
                      /\ sigint' \in BOOLEAN
                      /\ pc' = "housekeeping"
                      /\ tick' = [tick EXCEPT !.left = @ + 1,
                                              !.own = OwnMessage(last),
                                              !.seen = seen,
                                              !.outcome = "no_message"]
                      /\ ResetLocals
    /\ UNCHANGED <<scanner, ledgers, error_count, start_time, pre, process>>

\* create_message_id and the already-processed check
Dedup ==
    /\ pc = "dedup"
    /\ LET id == create_message_id(latest_message, actual_chat_name, now)
           key == PairKey(latest_message, actual_chat_name, now)
       IN  IF id \in processed_messages
           THEN \E dl \in LeaveTimes :
                  /\ now + dl <= Deadline
                  /\ now' = now + dl
                  /\ sigint' \in BOOLEAN
                  /\ NextIteration([tick EXCEPT !.checked = @ + 1, !.left = @ + 1,
                                                !.key = key, !.msg = latest_message,
                                                !.outcome = "duplicate"])
           ELSE /\ pc' = "generate"
                /\ message_id' = id
                /\ tick' = [tick EXCEPT !.checked = @ + 1, !.key = key,
                                        !.msg = latest_message]
                /\ sigint' = FALSE
                /\ UNCHANGED <<now, unread_chats, actual_chat_name, latest_message, ai_reply>>
    /\ UNCHANGED <<scanner, ledgers, error_count, start_time, pre, hist, process>>

\* the call whose model failure reaches the inner handler of the loop
GenerateFailurePropagates ==
    /\ pc = "generate"
    /\ \E model \in ModelReplies \cup {ModelFails} :
          LET g == generate_ai_response(latest_message, actual_chat_name,
                                        known_contacts, busy_message_sent, model)
              failed == g.calls > 0 /\ model = ModelFails
              t == [tick EXCEPT !.model_calls = @ + g.calls,
                                !.generated = @ + 1, !.kind = g.kind,
                                !.model_failed = failed]
          IN  /\ known_contacts' = g.known
              /\ busy_message_sent' = g.busy
              /\ hist' = IF g.kind = "busy"
                         THEN [hist EXCEPT !.busy_log =
                                  Append(@, ContactKey(actual_chat_name))]
                         ELSE hist
              /\ IF failed
                 THEN NextIteration([t EXCEPT !.left = @ + 1, !.outcome = "chat_error"])
                 ELSE /\ pc' = "send"
                      /\ ai_reply' = g.reply
                      /\ tick' = t
                      /\ UNCHANGED <<unread_chats, actual_chat_name, latest_message,
                                     message_id>>
    /\ sigint' = FALSE
    /\ UNCHANGED <<now, scanner, processed_messages, chat_cooldowns, error_count,
                   start_time, pre, process>>

\* generate_ai_response
Generate ==
    /\ pc = "generate"
    /\ \E model \in ModelReplies \cup {ModelFails} :
          LET g == generate_ai_response(latest_message, actual_chat_name,
                                        known_contacts, busy_message_sent, model)
          IN  /\ ai_reply' = g.reply
              /\ known_contacts' = g.known
              /\ busy_message_sent' = g.busy
              /\ tick' = [tick EXCEPT !.model_calls = @ + g.calls,
                                      !.generated = @ + 1, !.kind = g.kind,
                                      !.model_failed =
                                         g.calls > 0 /\ model = ModelFails]
              /\ hist' = IF g.kind = "busy"
                         THEN [hist EXCEPT !.busy_log =
                                  Append(@, ContactKey(actual_chat_name))]
                         ELSE hist
    /\ pc' = "send"
    /\ sigint' = FALSE
    /\ UNCHANGED <<now, scanner, processed_messages, chat_cooldowns, error_count,
                   start_time, unread_chats, actual_chat_name, latest_message,
                   message_id, pre, process>>

\* the recording done whatever send_message returned
AfterSendAlways(sent, messages, cooldowns, id, chat_name, t) ==
    [messages |-> messages \cup {id}, cooldowns |-> Put(cooldowns, chat_name, t)]

\* what the loop records once send_message has returned
AfterSend(sent, messages, cooldowns, id, chat_name, t) ==
    IF sent
    THEN [messages |-> messages \cup {id}, cooldowns |-> Put(cooldowns, chat_name, t)]
    ELSE [messages |-> messages, cooldowns |-> cooldowns]

\* send_message and what the loop does with its result
Send ==
    /\ pc = "send"
    /\ \E sent \in BOOLEAN, dl \in LeaveTimes :
          LET h1 == [hist EXCEPT
                        !.attempts = Put(@, tick.key, Count(@, tick.key) + 1),
                        !.repeats = IF \E e \in hist.sent_ok : e[1] = tick.key
                                    THEN @ \cup {tick.key} ELSE @]
              spent == IF sent THEN SendTyping + SendPause + dl + PostReplyWait
                       ELSE dl
              r == AfterSend(sent, processed_messages, chat_cooldowns,
                             message_id, actual_chat_name, now + SendTyping)
          IN  /\ now + spent <= Deadline
              /\ now' = now + spent
              /\ sigint' \in BOOLEAN
              /\ processed_messages' = r.messages
              /\ chat_cooldowns' = r.cooldowns
              /\ IF sent
                 THEN /\ error_count' = 0
                      /\ tick' = [tick EXCEPT !.sends = @ + 1, !.left = @ + 1,
                                              !.outcome = "sent"]
                      /\ hist' = [h1 EXCEPT
                                     !.sent_ok = @ \cup {<<tick.key, message_id>>},
                                     !.last_sent =
                                        IF tick.header_ok
                                        THEN Put(@, SelectedRow.title, now + SendTyping)
                                        ELSE @,
                                     !.replied = @ \cup
                                        {Replied(SelectedRow.title, actual_chat_name,
                                                 latest_message, now)},
                                     !.busy_delivered =
                                        IF ai_reply = BusyNotice
                                        THEN @ \cup {ContactKey(actual_chat_name)}
                                        ELSE @]
                 ELSE /\ tick' = [tick EXCEPT !.sends = @ + 1, !.left = @ + 1,
                                              !.outcome = "send_failed"]
                      /\ hist' = h1
                      /\ UNCHANGED error_count
    /\ pc' = "housekeeping"
    /\ ResetLocals
    /\ UNCHANGED <<scanner, known_contacts, busy_message_sent, start_time, pre,
                   process>>

\* a contact replied to once a minute, long before the run under study
Old == <<"O", "l", "d">>

StaleBuckets ==
    (TimestampGroup(StartTime) - MaxProcessedMessages) .. (TimestampGroup(StartTime) - 1)

StaleId(b) == create_message_id(Hi, Old, b * BucketSeconds)

StaleIds == {StaleId(b) : b \in StaleBuckets}

\* the m oldest stale fingerprints among those in the set
OldestStale(messages, m) ==
    LET present == {b \in StaleBuckets : StaleId(b) \in messages}
    IN  {StaleId(b) : b \in {c \in present :
                               Cardinality({d \in present : d < c}) < m}}

\* the eviction taking one entry fewer
OldMessagesShort(messages) ==
    LET recent == messages \ StaleIds
        stale == messages \cap StaleIds
    IN  {T \cup OldestStale(stale, EvictCount - 1 - Cardinality(T)) :
            T \in {U \in SUBSET recent :
                     /\ Cardinality(U) <= EvictCount - 1
                     /\ EvictCount - 1 - Cardinality(U) <= Cardinality(stale)}}

\* list(self.processed_messages)[:50]: any 50 entries of the set.  Stale
\* fingerprints can never be computed again and are interchangeable, so the
\* choice is enumerated over the recent entries taken, filled up with the
\* oldest stale ones.
OldMessages(messages) ==
    LET recent == messages \ StaleIds
        stale == messages \cap StaleIds
    IN  {T \cup OldestStale(stale, EvictCount - Cardinality(T)) :
            T \in {U \in SUBSET recent :
                     /\ Cardinality(U) <= EvictCount
                     /\ EvictCount - Cardinality(U) <= Cardinality(stale)}}

ExpiredCooldowns(cooldowns, current_time) ==
    {chat \in DOMAIN cooldowns :
        current_time - cooldowns[chat] > MESSAGE_COOLDOWN * 2}

\* the cleanup that expires cooldowns and discards no fingerprint
HousekeepingCooldownsOnly ==
    /\ pc = "housekeeping"
    /\ tick' = [tick EXCEPT !.found = Cardinality(processed_messages), !.kept = TRUE]
    /\ chat_cooldowns' =
          [chat \in DOMAIN chat_cooldowns \ ExpiredCooldowns(chat_cooldowns, now)
              |-> chat_cooldowns[chat]]
    /\ pc' = "sleep"
    /\ sigint' = FALSE
    /\ UNCHANGED <<now, scanner, processed_messages, known_contacts,
                   busy_message_sent, error_count, start_time, locals, pre, hist,
                   process>>

\* the periodic cleanup at the end of the loop body
Housekeeping ==
    /\ pc = "housekeeping"
    /\ IF Cardinality(processed_messages) > MaxProcessedMessages
       THEN \E old_messages \in OldMessages(processed_messages) :
               /\ processed_messages' = processed_messages \ old_messages
               /\ hist' = [hist EXCEPT !.sent_ok =
                                {e \in @ : e[2] \notin old_messages}]
               /\ tick' = [tick EXCEPT !.found = Cardinality(processed_messages),
                                       !.evicted = Cardinality(old_messages),
                                       !.kept = TRUE]
       ELSE /\ tick' = [tick EXCEPT !.found = Cardinality(processed_messages),
                                    !.kept = TRUE]
            /\ UNCHANGED <<processed_messages, hist>>
    /\ chat_cooldowns' =
          [chat \in DOMAIN chat_cooldowns \ ExpiredCooldowns(chat_cooldowns, now)
              |-> chat_cooldowns[chat]]
    /\ pc' = "sleep"
    /\ sigint' = FALSE
    /\ UNCHANGED <<now, scanner, known_contacts, busy_message_sent, error_count,
                   start_time, locals, pre, process>>

\* the dynamic sleep that ends the loop body
Sleep ==
    /\ pc = "sleep"
    /\ LET elapsed == now - start_time
           sleep_time == Max(MinSleep, CHECK_INTERVAL - elapsed)
       IN  /\ now + sleep_time <= Deadline
           /\ now' = now + sleep_time
           /\ NextIteration([tick EXCEPT !.slept = sleep_time,
                                         !.outcome =
                                            IF @ = "running" THEN "idle" ELSE @])
    /\ sigint' = FALSE
    /\ UNCHANGED <<scanner, ledgers, error_count, start_time, pre, hist, process>>

\* the inner handler without its attempt to leave the chat
ChatErrorNoLeave ==
    /\ pc \in {"read", "dedup", "generate", "send"}
    /\ sigint' = FALSE
    /\ NextIteration([tick EXCEPT !.outcome = "chat_error"])
    /\ UNCHANGED <<now, scanner, ledgers, error_count, start_time, pre, hist, process>>

\* the handler of an exception raised while a chat is being processed
ChatError ==
    /\ pc \in {"read", "dedup", "generate", "send"}
    /\ \E dl \in LeaveTimes :
          /\ now + dl <= Deadline
          /\ now' = now + dl
          /\ sigint' \in BOOLEAN
    /\ NextIteration([tick EXCEPT !.left = @ + 1, !.outcome = "chat_error"])
    /\ UNCHANGED <<scanner, ledgers, error_count, start_time, pre, hist, process>>

\* the loop-level handler giving up instead of backing off
LoopErrorGivesUp ==
    /\ pc \in {"scan", "sleep"}
    /\ pc' = "cleanup"
    /\ sigint' = FALSE
    /\ error_count' = error_count + 1
    /\ tick' = [tick EXCEPT !.outcome = "loop_error"]
    /\ ResetLocals
    /\ UNCHANGED <<now, scanner, ledgers, start_time, pre, hist, process>>

\* the handler of an exception that escapes the loop body: raised at the
\* top of the body (lines 688-697) or after the chat was dealt with (lines
\* 772-792).  No statement lies between the end of the inner try and the
\* eviction at lines 775-778, so the latter is placed after the eviction.
LoopError ==
    /\ pc \in {"scan", "sleep"}
    /\ \E dl \in LeaveTimes :
          LET backoff == IF error_count + 1 > MaxErrors
                         THEN LongBackoff ELSE ShortBackoff
          IN  /\ now + dl + backoff <= Deadline
              /\ now' = now + dl + backoff
              /\ sigint' \in BOOLEAN
              /\ NextIteration([tick EXCEPT !.left = @ + 1, !.backoff = backoff,
                                            !.outcome = "loop_error"])
    /\ error_count' = IF error_count + 1 > MaxErrors THEN 0 ELSE error_count + 1
    /\ UNCHANGED <<scanner, ledgers, start_time, pre, hist, process>>

\* a keyboard interrupt that is not swallowed: raised in the loop body it
\* reaches `except KeyboardInterrupt: break`, raised during setup or during
\* the back-off sleep of the error handler it reaches the handler of main;
\* either way the locals of the loop are gone and main goes on to cleanup
KeyboardInterrupt ==
    /\ pc \in {"main", "wait"} \cup LoopPcs
    /\ pc' = "cleanup"
    /\ sigint' = TRUE
    /\ driver' \in IF pc = "main" THEN {NoDriver, DriverOpen} ELSE {driver}
    /\ error_count' = 0
    /\ start_time' = StartTime
    /\ tick' = [NewTick EXCEPT !.outcome = "interrupted"]
    /\ pre' = Snapshot
    /\ ResetLocals
    /\ UNCHANGED <<now, scanner, ledgers, hist, environ, cleanups, wait>>

\* the finally clause of main: cleanup, then main returns
Cleanup ==
    /\ pc = "cleanup"
    /\ \E quit_ok \in BOOLEAN : driver' = cleanup(driver, quit_ok)
    /\ cleanups' = cleanups + 1
    /\ pc' = "exit"
    /\ sigint' = FALSE
    /\ UNCHANGED <<now, scanner, ledgers, error_count, start_time, locals, tick,
                   pre, hist, environ, wait>>

Next ==
    \/ Construct
    \/ OpenWhatsApp
    \/ StatusCheck
    \/ EnterLoop
    \/ SetupFails
    \/ Scan
    \/ Click
    \/ Read
    \/ Dedup
    \/ Generate
    \/ Send
    \/ Housekeeping
    \/ Sleep
    \/ ChatError
    \/ LoopError
    \/ KeyboardInterrupt
    \/ Cleanup

Spec == Init /\ [][Next]_vars

(***************************************************************************)
(* The agent after a long run: a hundred minutes of replies to one         *)
(* contact, one a minute, the last of them more than two cooldown windows  *)
(* ago.                                                                    *)
(***************************************************************************)
AgedScanCount == 11 * WipeEvery - 2

\* how many fingerprints the long run has left in the set
AgedFill == MaxProcessedMessages

AgedMessages(n) ==
    {StaleId(b) : b \in {c \in StaleBuckets : c >= TimestampGroup(StartTime) - n}}

\* the clock at the top of the loop where the long run is picked up
AgedStart == StartTime + 4 * CHECK_INTERVAL

InitAged ==
    /\ pc = "scan"
    /\ now = AgedStart
    /\ last_scan_time = AgedStart - SCAN_COOLDOWN - 1
    /\ scan_count = AgedScanCount
    /\ processed_chats = {}
    /\ processed_messages = AgedMessages(AgedFill)
    /\ chat_cooldowns = EmptyMap
    /\ known_contacts = {CleanName(Old)}
    /\ busy_message_sent = {CleanName(Old)}
    /\ error_count = 0
    /\ start_time = AgedStart - SCAN_COOLDOWN - 1
    /\ unread_chats = <<>>
    /\ actual_chat_name = None
    /\ latest_message = None
    /\ message_id = None
    /\ ai_reply = None
    /\ tick = NewTick
    /\ pre = Snapshot
    /\ hist = [NoHist EXCEPT !.busy_delivered = {CleanName(Old)}]
    /\ environ = FullEnv
    /\ driver = DriverOpen
    /\ cleanups = 0
    /\ sigint = FALSE
    /\ wait = NoWait

\* the agent from construction, or from the top of the loop after a long run
SpecAged == (Init \/ InitAged) /\ [][Next]_vars

(***************************************************************************)
(* The agent a minute later in such a run, picked up between a successful  *)
(* send and the housekeeping pass that follows it.  Ann's "hi" was         *)
(* answered in StartTime's minute; Al's first message, LongA, was read on  *)
(* the minute boundary and has just been answered with the busy notice.    *)
(* The set holds 101 fingerprints: 99 stale ones, Ann's and Al's.          *)
(***************************************************************************)
\* the clock when the pickup iteration scanned, when it read the message,
\* and when the reply had been typed
LateScan == LateStart - (2 * STABILITY_DELAY + SendTyping + SendPause + LeavePause + PostReplyWait)

LateRead == LateScan + 2 * STABILITY_DELAY

LateSent == LateRead + SendTyping

\* the clock when Ann's message was read and when the reply to it was typed
AnnRead == LateScan - 19

AnnSent == AnnRead + SendTyping

LateScanCount == AgedScanCount + 5

AnnId == create_message_id(Hi, Ann, AnnRead)

AlId == create_message_id(LongA, Al, LateRead)

InitLate ==
    /\ pc = "housekeeping"
    /\ now = LateStart
    /\ last_scan_time = LateScan
    /\ scan_count = LateScanCount
    /\ processed_chats = {ChatId([x |-> 0, y |-> 0])}
    /\ processed_messages = AgedMessages(AgedFill - 1) \cup {AnnId, AlId}
    /\ chat_cooldowns = Put(Put(EmptyMap, Ann, AnnSent), Al, LateSent)
    /\ known_contacts = {CleanName(Old), CleanName(Ann), CleanName(Al)}
    /\ busy_message_sent = {CleanName(Old), CleanName(Ann), CleanName(Al)}
    /\ error_count = 0
    /\ start_time = LateScan
    /\ unread_chats = <<>>
    /\ actual_chat_name = None
    /\ latest_message = None
    /\ message_id = None
    /\ ai_reply = None
    /\ tick = [NewTick EXCEPT !.scanned = TRUE, !.unread_rows = 1, !.opened = 1,
                              !.seen = TRUE, !.checked = 1,
                              !.key = PairKey(LongA, Al, LateRead), !.msg = LongA,
                              !.generated = 1, !.kind = "busy", !.sends = 1,
                              !.left = 1, !.outcome = "sent"]
    /\ pre = [processed_messages |-> AgedMessages(AgedFill - 1) \cup {AnnId},
              chat_cooldowns |-> Put(EmptyMap, Ann, AnnSent),
              known_contacts |-> {CleanName(Old), CleanName(Ann)},
              busy_message_sent |-> {CleanName(Old), CleanName(Ann)}]
    /\ hist = [NoHist EXCEPT
                  !.busy_log = <<CleanName(Old), CleanName(Ann), CleanName(Al)>>,
                  !.busy_delivered = {CleanName(Old), CleanName(Ann), CleanName(Al)},
                  !.attempts = Put(Put(EmptyMap, PairKey(Hi, Ann, AnnRead), 1),
                                   PairKey(LongA, Al, LateRead), 1),
                  !.sent_ok = {<<PairKey(Hi, Ann, AnnRead), AnnId>>,
                               <<PairKey(LongA, Al, LateRead), AlId>>},
                  !.last_sent = Put(Put(EmptyMap, Ann, AnnSent), Al, LateSent),
                  !.replied = {Replied(Ann, Ann, Hi, AnnRead),
                               Replied(Al, Al, LongA, LateRead)}]
    /\ environ = FullEnv
    /\ driver = DriverOpen
    /\ cleanups = 0
    /\ sigint = FALSE
    /\ wait = NoWait

\* the agent from construction, or picked up a minute later
SpecLate == (Init \/ InitLate) /\ [][Next]_vars

(***************************************************************************)
(* The idle loop in front of a steady page: the chat list keeps showing    *)
(* one unread row, which no cooldown covers and which the scanner has      *)
(* already marked as processed; the loop keeps running, clicks may fail.   *)
(***************************************************************************)
\* the row that stays unread
SteadyRow ==
    [x |-> 0, y |-> 72, displayed |-> TRUE, height |-> 72, unread |-> TRUE,
     title |-> Ann]

\* the chat lists in which SteadyRow is the only unread row
SteadyPages ==
    {all_chats \in RowLists :
        \E i \in 1..Len(all_chats) :
            all_chats[i] = SteadyRow /\ UnreadRows(all_chats) = {i}}

\* scans done so far: every phase of the ten-scan cycle in which the
\* processed-chats set can hold an entry
LiveCounts == (10 * WipeEvery + 1)..(11 * WipeEvery - 1)

\* the loop about to start a tick: the row was surfaced some scans ago, its
\* click failed or its message was skipped, and nothing has been answered
InitLive ==
    /\ pc = "scan"
    /\ now = LiveStart
    /\ last_scan_time \in
          {LiveStart - k * CHECK_INTERVAL : k \in 0..2}
    /\ scan_count \in LiveCounts
    /\ processed_chats = {ChatId(SteadyRow)}
    /\ processed_messages = {}
    /\ chat_cooldowns = EmptyMap
    /\ known_contacts = {}
    /\ busy_message_sent = {}
    /\ error_count = 0
    /\ start_time = LiveStart - CHECK_INTERVAL
    /\ unread_chats = <<>>
    /\ actual_chat_name = None
    /\ latest_message = None
    /\ message_id = None
    /\ ai_reply = None
    /\ tick = NewTick
    /\ pre = Snapshot
    /\ hist = NoHist
    /\ environ = FullEnv
    /\ driver = DriverOpen
    /\ cleanups = 0
    /\ sigint = FALSE
    /\ wait = NoWait

\* the scan in front of the steady page
SteadyScan == ScanPage(SteadyPages)

NextLive ==
    \/ SteadyScan
    \/ Click
    \/ Housekeeping
    \/ Sleep

\* the loop is one thread whose every step returns: it always takes its next
\* step
SpecLive == InitLive /\ [][NextLive]_vars /\ WF_vars(NextLive)

(***************************************************************************)
(* The process started in any environment.                                 *)
(***************************************************************************)
InitStartup == Fresh /\ environ \in Envs

SpecStartup == InitStartup /\ [][Next]_vars

(***************************************************************************)
(* Properties                                                              *)
(***************************************************************************)
FirstContact(chat_name) ==
    /\ ContactKey(chat_name) \notin pre.known_contacts
    /\ ContactKey(chat_name) \notin pre.busy_message_sent
    /\ ~IsSynthetic(ContactKey(chat_name))

\* C1: the first message generate_ai_response handles for a contact that is
\* not known, not busy-sent and has no placeholder name is answered with
\* exactly "Hi, Akash is busy.", without a model call, and the contact is
\* then in the known set and in the busy-notice-sent set.
C1_FirstMessageGetsBusyNotice ==
    (pc = "send" /\ FirstContact(actual_chat_name)) =>
        /\ ai_reply = BusyNotice
        /\ tick.model_calls = 0
        /\ ContactKey(actual_chat_name) \in known_contacts
        /\ ContactKey(actual_chat_name) \in busy_message_sent

C1_Witness ==
    /\ pc = "send"
    /\ FirstContact(actual_chat_name)
    /\ tick.kind = "busy"
    /\ ai_reply = BusyNotice
    /\ ContactKey(actual_chat_name) \in known_contacts \cap busy_message_sent

\* C2: the busy notice is produced at most once per normalized contact name;
\* a message for a contact that is already busy-sent is answered by the
\* model or by the generic fallback.
C2_BusyNoticeAtMostOnce ==
    /\ \A i, j \in 1..Len(hist.busy_log) :
          i # j => hist.busy_log[i] # hist.busy_log[j]
    /\ (pc = "send" /\ ContactKey(actual_chat_name) \in pre.busy_message_sent)
          => tick.kind \in {"model", "fallback"}

C2_Witness ==
    /\ pc = "send"
    /\ ContactKey(actual_chat_name) \in pre.busy_message_sent
    /\ \E i \in 1..Len(hist.busy_log) : hist.busy_log[i] = ContactKey(actual_chat_name)
    /\ tick.kind \in {"model", "fallback"}

\* C3 as stated: a (chat name, 50-character prefix) pair read in one minute
\* bucket gets at most one send attempt.
C3_OneAttemptPerPair ==
    \A key \in DOMAIN hist.attempts : hist.attempts[key] <= 1

\* C3 amended: once a send for the pair has succeeded, and while housekeeping
\* has not evicted its fingerprint, no further send is attempted for the pair
\* in that minute bucket: the later tick stops at the fingerprint check.
C3_NoAttemptAfterSuccess == hist.repeats = {}

C3_Witness ==
    /\ tick.outcome = "duplicate"
    /\ tick.generated = 0
    /\ tick.sends = 0
    /\ \E e \in hist.sent_ok : e[1] = tick.key

\* C4: a scan made less than MESSAGE_COOLDOWN seconds after a successful
\* send to a contact does not surface an unread row of that contact.
C4_NoRowOfContactInCooldown ==
    (pc = "click" /\ SelectedRow.title \in DOMAIN hist.last_sent) =>
        now - hist.last_sent[SelectedRow.title] >= MESSAGE_COOLDOWN

\* C5: after a tick whose send failed the four ledgers have the values they
\* had before the reply was generated.
C5_FailedSendRecordsNothing ==
    tick.outcome = "send_failed" => Snapshot = pre

\* C6: a fingerprint is added to the processed set, and a name is given a
\* cooldown timestamp, only by the step in which send_message returned
\* success for that message.
C6_RecordedOnlyOnSendSuccess ==
    [][LET added == processed_messages' \ processed_messages
           stamped == {n \in DOMAIN chat_cooldowns' :
                          \/ n \notin DOMAIN chat_cooldowns
                          \/ chat_cooldowns'[n] # chat_cooldowns[n]}
       IN  (added # {} \/ stamped # {}) =>
              /\ pc = "send"
              /\ tick'.outcome = "sent"
              /\ added \subseteq {message_id}
              /\ stamped \subseteq {actual_chat_name}]_vars

C6_Witness ==
    /\ pc = "housekeeping"
    /\ tick.outcome = "sent"
    /\ processed_messages # pre.processed_messages
    /\ chat_cooldowns # pre.chat_cooldowns

\* C7: a latest message that carries a signature of the agent, or is longer
\* than 120 characters and contains "assistant", reaches neither the
\* fingerprint check nor the responder nor send; the chat is left with the
\* ledgers as they were.
C7_OwnMessageIsDropped ==
    tick.own =>
        /\ pc \notin {"dedup", "generate", "send"}
        /\ tick.checked = 0
        /\ tick.generated = 0
        /\ tick.model_calls = 0
        /\ tick.sends = 0
        /\ tick.left >= 1
        /\ (\/ pc = "scan" /\ tick.outcome = "own_message"
            \/ pc = "housekeeping" /\ tick.outcome = "no_message") => Snapshot = pre

C7_Witness ==
    /\ tick.own
    /\ tick.opened = 1
    /\ tick.left = 1
    /\ tick.outcome \in {"own_message", "no_message"}

C9_AtMostFiftyLeft ==
    (pc = "sleep" /\ tick.found > 100) => Cardinality(processed_messages) <= 50

\* C9 amended: a housekeeping pass that finds more than 100 fingerprints
\* discards exactly 50 of them; it finds at most 101, so 51 are left.
C9_FiftyDiscarded ==
    (pc = "sleep" /\ tick.found > 100) =>
        /\ tick.found = 101
        /\ tick.evicted = 50
        /\ Cardinality(processed_messages) = 51

C9_Witness ==
    /\ pc = "sleep"
    /\ tick.found > 100
    /\ Cardinality(processed_messages) = 51

\* C10: a scan returns at most one chat, and one iteration of the loop opens
\* at most one chat, makes at most one responder call and attempts at most
\* one send.
C10_OneChatPerTick ==
    /\ Len(unread_chats) <= 1
    /\ tick.opened <= 1
    /\ tick.generated <= 1
    /\ tick.model_calls <= 1
    /\ tick.sends <= 1

C10_Witness ==
    /\ tick.unread_rows >= 2
    /\ tick.opened = 1
    /\ tick.generated = 1
    /\ tick.sends = 1

\* C11: a keyboard interrupt delivered while the monitoring loop is running
\* stops the loop: the step after it starts no scan, and control has
\* reached cleanup.
C11_InterruptStopsLoop ==
    [][sigint => (pc = "cleanup" /\ scan_count' = scan_count)]_vars

\* C12: once the agent exists, cleanup has run exactly once when main
\* returns and never before; a browser session that was opened has been
\* told to quit, and a quit that raised did not keep main from returning.
C12_CleanupOnEveryExit ==
    /\ cleanups <= 1
    /\ pc # "exit" => cleanups = 0
    /\ (pc = "exit" /\ driver # NoAgent) =>
          /\ cleanups = 1
          /\ driver \in {NoDriver, DriverQuit, DriverQuitFailed}

C12_Witness ==
    /\ pc = "exit"
    /\ tick.outcome = "interrupted"
    /\ cleanups = 1
    /\ driver = DriverQuitFailed

CleanOutcomes ==
    {"idle", "no_message", "sent", "send_failed", "own_message", "duplicate",
     "click_failed"}

\* C14: the error counter counts failed ticks in a row: at the top of the
\* loop after a tick that ended without an exception the count is zero.
C14_CleanTickRestartsCount ==
    (pc = "scan" /\ tick.outcome \in CleanOutcomes) => error_count = 0

\* C15: no step removes a contact from the known-contacts set or from the
\* busy-notice-sent set.
C15_ContactSetsOnlyGrow ==
    [][/\ known_contacts \subseteq known_contacts'
       /\ busy_message_sent \subseteq busy_message_sent']_vars

C15_Witness ==
    /\ pc = "sleep"
    /\ tick.evicted > 0
    /\ CleanName(Old) \in known_contacts \cap busy_message_sent
    /\ Cardinality(known_contacts) >= 2

\* C16 as stated: with the API key or the profile path not given, the
\* process ends before a browser session is created and before the loop is
\* entered.
C16_MissingSettingStopsProcess ==
    (~environ.OPENAI_API_KEY \/ ~environ.CHROME_PROFILE_PATH) =>
        /\ pc \in {"start", "exit"}
        /\ driver = NoAgent

\* C16 amended: with the API key not given (or the .env file or the
\* ChromeDriver executable missing) the process ends before an agent
\* exists, a browser session is created or the loop is entered; a profile
\* path that is not given is replaced by the default and stops nothing.
C16_MissingKeyStopsProcess ==
    (~environ.OPENAI_API_KEY \/ ~environ.env_file \/ ~environ.chromedriver) =>
        /\ pc \in {"start", "exit"}
        /\ driver = NoAgent
        /\ cleanups = 0
        /\ scan_count = 0

C16_Witness ==
    /\ pc = "exit"
    /\ ~environ.OPENAI_API_KEY
    /\ environ.env_file
    /\ environ.chromedriver
    /\ driver = NoAgent

\* C17: a non-empty latest message that carries no signature of the agent
\* and is not both longer than 120 characters and about an "assistant" is
\* not dropped by the own-message filtering: it reaches the fingerprint
\* check.
C17_OnlyOwnMessagesAreFiltered ==
    (tick.seen /\ ~tick.own) => tick.outcome \notin {"own_message", "no_message"}

\* C18: at the top of the loop after a tick that ended without an
\* exception, that tick has done the housekeeping pass and has slept at
\* least one second.
C18_EveryTickHousekeepsAndSleeps ==
    (pc = "scan" /\ tick.outcome \in CleanOutcomes) =>
        /\ tick.kept
        /\ tick.slept >= MinSleep

\* C19: right after a scan that raised the scan counter to a multiple of
\* ten the processed-chats set is empty.
C19_WipedOnEveryTenthScan ==
    (/\ pc \in {"click", "housekeeping"}
     /\ tick.scanned
     /\ tick.opened = 0
     /\ scan_count % WipeEvery = 0) => processed_chats = {}

\* C20: when an iteration has opened a chat, leave_current_chat has been
\* attempted by the time the loop body is done with the chat.
C20_OpenedChatIsLeft ==
    (tick.opened >= 1 /\ pc \in {"scan", "housekeeping", "sleep"}) => tick.left >= 1

C20_Witness ==
    /\ pc = "scan"
    /\ tick.opened = 1
    /\ tick.left = 1
    /\ tick.outcome = "chat_error"

\* the fingerprint under which the reply e was recorded
FingerprintOf(e) == create_message_id(e.message, e.name, e.bucket * BucketSeconds)

\* e is an earlier reply, in the same chat name and the same minute, to
\* another message with the same first 50 characters as the one in hand
SamePrefixOther(e) ==
    /\ e.name = actual_chat_name
    /\ e.message # latest_message
    /\ Take(e.message, FingerprintPrefixLen) = Take(latest_message, FingerprintPrefixLen)
    /\ e.bucket = TimestampGroup(now)

\* C21 as stated: once a message has been replied to, a different message
\* of the same chat name with the same first 50 characters, read in the same
\* minute, never gets past the fingerprint check.
C21_SharedPrefixIsSuppressed ==
    \A e \in hist.replied :
        ~(pc \in {"generate", "send"} /\ SamePrefixOther(e))

\* C21 amended: the two messages get the same fingerprint, and the second
\* stops at the fingerprint check for as long as housekeeping has not
\* evicted that fingerprint; it gets past the check only after an eviction.
C21_SharedPrefixSuppressedUntilEvicted ==
    \A e \in hist.replied :
        /\ (pc = "dedup" /\ SamePrefixOther(e)) =>
              create_message_id(latest_message, actual_chat_name, now) = FingerprintOf(e)
        /\ (pc \in {"generate", "send"} /\ SamePrefixOther(e)) =>
              /\ message_id = FingerprintOf(e)
              /\ FingerprintOf(e) \notin processed_messages
              /\ \A s \in hist.sent_ok : s[2] # FingerprintOf(e)

C21_Witness ==
    /\ pc = "scan"
    /\ tick.outcome = "duplicate"
    /\ tick.generated = 0
    /\ tick.sends = 0
    /\ \E e \in hist.replied :
          /\ e.name = tick.key[1]
          /\ e.message # tick.msg
          /\ Take(e.message, FingerprintPrefixLen) = tick.key[2]
          /\ e.bucket = tick.key[3]
          /\ FingerprintOf(e) \in processed_messages

\* C22: at the top of the loop the processed-messages set holds at most 100
\* fingerprints.
C22_AtMostHundredAtTickStart ==
    pc = "scan" => Cardinality(processed_messages) <= MaxProcessedMessages

C22_Witness ==
    /\ pc = "scan"
    /\ tick.outcome = "sent"
    /\ tick.found = MaxProcessedMessages + 1
    /\ tick.evicted = EvictCount
    /\ Cardinality(processed_messages) = MaxProcessedMessages + 1 - EvictCount

\* C23: a step in which the model call fails ends with a reply text in
\* hand, the error counter as it was, no error recorded for the iteration,
\* and the loop about to call send_message.
C23_ModelFailureIsAbsorbed ==
    [][(pc = "generate" /\ tick'.model_failed) =>
          /\ pc' = "send"
          /\ ai_reply' # None
          /\ Len(ai_reply') > 0
          /\ error_count' = error_count
          /\ tick'.outcome = "running"]_vars

C23_Witness ==
    /\ pc = "housekeeping"
    /\ tick.model_failed
    /\ tick.model_calls = 1
    /\ tick.sends = 1
    /\ tick.outcome \in {"sent", "send_failed"}

\* C26: a contact is in the busy-notice-sent set only if the busy notice
\* has been sent to it successfully (the moment between the responder's
\* return and the result of send_message set aside).
C26_BusySentOnlyAfterDelivery ==
    pc # "send" => busy_message_sent \subseteq hist.busy_delivered

\* C27: when the model call has failed, the reply handed to send_message is
\* the generic fallback text, never the busy notice; the contact is in the
\* known set and the busy-notice-sent set is as it was before the call.
C27_FailureGivesGenericFallback ==
    (pc = "send" /\ tick.model_failed) =>
        /\ ai_reply = GenericFallback
        /\ ai_reply # BusyNotice
        /\ tick.kind = "fallback"
        /\ ContactKey(actual_chat_name) \in known_contacts
        /\ busy_message_sent = pre.busy_message_sent

C27_Witness ==
    /\ pc = "send"
    /\ tick.model_failed
    /\ ai_reply = GenericFallback
    /\ ContactKey(actual_chat_name) \notin pre.known_contacts
    /\ ContactKey(actual_chat_name) \notin busy_message_sent

\* C28: when a scan has returned a chat row, the chat_id of that row is in
\* the processed-chats set.
C28_SelectedRowIsMarked ==
    (pc = "click" /\ tick.scanned /\ tick.opened = 0) =>
        unread_chats[1][3] \in processed_chats

\* C25: a message that has been replied to, and whose fingerprint is still
\* in the processed set, is not replied to again when a later iteration
\* opens the same chat, reads the same name from its header and finds the
\* same text as the latest message.
C25_NoSecondReply ==
    \A e \in hist.replied :
        ~(/\ pc = "send"
          /\ e.chat = SelectedRow.title
          /\ e.name = actual_chat_name
          /\ e.message = latest_message
          /\ FingerprintOf(e) \in processed_messages)

\* the most status checks a wait can make
MaxStatusChecks == max_wait_time \div check_interval

\* C24: wait_for_whatsapp makes at most 24 status checks, each counted as
\* 5 seconds; while it is still checking fewer than 24 have been made, and
\* when the 24th has not found the chat list it has returned failure and
\* main is on its way out: no second wait, no scan, cleanup and exit.
C24_WaitEndsAfterTwentyFourChecks ==
    /\ wait.checks <= MaxStatusChecks
    /\ wait.elapsed_time = check_interval * wait.checks
    /\ pc = "wait" => wait.checks < MaxStatusChecks
    /\ wait.checks = MaxStatusChecks =>
          /\ pc \in {"cleanup", "exit"}
          /\ tick.outcome \in {"setup_failed", "interrupted"}
          /\ scan_count = 0
          /\ pc = "exit" => cleanups = 1

C24_Witness ==
    /\ pc = "exit"
    /\ tick.outcome = "setup_failed"
    /\ wait.checks = MaxStatusChecks
    /\ wait.elapsed_time = max_wait_time
    /\ wait.seen = CheckOutcomes
    /\ scan_count = 0
    /\ cleanups = 1
    /\ driver \in {DriverQuit, DriverQuitFailed}


\* the longest a marked row stays hidden: the rest of the ten-scan cycle, one
\* scan in two ticks
SurfaceWithin == WipeEvery * 2 * CHECK_INTERVAL

\* C29: in front of a page that keeps showing one unread row outside any
\* cooldown, with the loop running, a row whose chat_id is in processed_chats
\* is eventually returned by a scan again (the every-tenth-scan clearing of
\* the set lets it through)
C29_MarkedRowIsEventuallySurfaced ==
    (/\ pc = "scan"
     /\ ChatId(SteadyRow) \in processed_chats
     /\ now + SurfaceWithin <= LiveMax)
    ~> (/\ pc = "click"
        /\ tick.scanned
        /\ unread_chats[1][3] = ChatId(SteadyRow))

C29_Witness ==
    /\ pc = "click"
    /\ tick.scanned
    /\ unread_chats[1][3] = ChatId(SteadyRow)
    /\ scan_count = 11 * WipeEvery + 1
    /\ now = LiveStart + SurfaceWithin
    /\ processed_chats = {ChatId(SteadyRow)}

=============================================================================
